---------------------------- MODULE Spec2Model ----------------------------
(***************************************************************************)
(* A model of the waypoint node (waypoint_node.cpp) and of the trajectory  *)
(* visualisation it calls (ros_visualization.cpp: drawMavTrajectory,       *)
(* drawMavTrajectoryWithMavMarker, drawVertices).                          *)
(*                                                                         *)
(* Lengths are integers counting tenths of a metre, so that main's marker  *)
(* spacing of 1.6 is the integer 16.  The positions the model feeds in are *)
(* chosen so that every distance the code computes is a whole number of    *)
(* tenths; Norm is then the exact Euclidean norm.                          *)
(***************************************************************************)
EXTENDS Integers, Sequences, FiniteSets, TLC

(***************************************************************************)
(* Bounds of the model.                                                    *)
(***************************************************************************)
\* longest waypoint list the external publisher sends
MaxWaypoints == 3
\* most messages that arrive between two calls of ros::spinOnce()
MaxPending == 2
\* longest sample sequence handed to the drawing functions on their own
MaxSamples == 4

(***************************************************************************)
(* Program constants.                                                      *)
(***************************************************************************)
\* waypoint_node.cpp:28   const int dimension = 3;
dimension == 3
\* waypoint_node.cpp:17   n.subscribe<...>("/waypoints", 10, waycb)
queue_size == 10
\* waypoint_node.cpp:96   double distance = 1.6;   (in tenths)
main_distance == 16
\* mav_trajectory_generation::derivative_order
POSITION == 0
VELOCITY == 1
ACCELERATION == 2
\* waypoint_node.cpp:29
derivative_to_optimize == ACCELERATION
\* waypoint_node.cpp:97   std::string frame_id = "world";
main_frame_id == "world"

(***************************************************************************)
(* Vectors (Eigen::Vector3d).                                              *)
(***************************************************************************)
Vector3d(a, b, c) == [x |-> a, y |-> b, z |-> c]

Zero == Vector3d(0, 0, 0)

Minus(a, b) == Vector3d(a.x - b.x, a.y - b.y, a.z - b.z)

RECURSIVE RootFrom(_, _)
RootFrom(n, r) == IF (r + 1) * (r + 1) > n THEN r ELSE RootFrom(n, r + 1)

\* Eigen's norm(): the square root of the sum of the squares
Norm(v) == RootFrom(v.x * v.x + v.y * v.y + v.z * v.z, 0)

(***************************************************************************)
(* Vertices (mav_trajectory_generation::Vertex).  A vertex holds, for some *)
(* derivative orders, a constraint value.                                  *)
(***************************************************************************)
\* Vertex(dimension): no constraint yet
Vertex(D) == [D |-> D, constraints |-> [d \in {} |-> Zero]]

\* Vertex::addConstraint: sets (or replaces) the constraint of one derivative
addConstraint(v, derivative, value) ==
    [D |-> v.D,
     constraints |-> [d \in (DOMAIN v.constraints) \cup {derivative} |->
                         IF d = derivative THEN value ELSE v.constraints[d]]]

\* Vertex::makeStartOrEnd: position = the given value, every higher
\* derivative up to up_to_derivative = zero
makeStartOrEnd(v, value, up_to_derivative) ==
    [D |-> v.D,
     constraints |-> [d \in (DOMAIN v.constraints) \cup (0..up_to_derivative) |->
                         IF d = POSITION THEN value
                         ELSE IF d <= up_to_derivative THEN Zero
                         ELSE v.constraints[d]]]

hasConstraint(v, derivative) == derivative \in DOMAIN v.constraints

(***************************************************************************)
(* Inputs.                                                                 *)
(***************************************************************************)
\* positions an incoming pose may carry; two of them are off the z = 0 plane.
\* The distances between their projections on that plane are 6, 8 and 10.
WayPositions == {Vector3d(0, 0, 0), Vector3d(6, 8, 5), Vector3d(6, 0, 5)}

RECURSIVE SeqsUpTo(_, _)
SeqsUpTo(S, n) ==
    IF n = 0 THEN {<<>>}
    ELSE LET shorter == SeqsUpTo(S, n - 1)
         IN  shorter \cup {Append(s, e) : s \in shorter, e \in S}

\* every waypoint list (poses[k].position) of at most MaxWaypoints poses
WaypointLists == SeqsUpTo(WayPositions, MaxWaypoints)

\* the lists the external publisher sends while the node runs: the empty
\* list and the stretches, from its first or second stop, of a route that
\* goes back and forth between two positions
Route == [k \in 1..(MaxWaypoints + 1) |->
             IF k % 2 = 1 THEN Vector3d(0, 0, 0) ELSE Vector3d(6, 8, 5)]

PublishedLists ==
    {<<>>} \cup {SubSeq(Route, from, from + n - 1) :
                    from \in 1..2, n \in 1..MaxWaypoints}

\* positions a trajectory sample may have when the drawing functions are
\* exercised on their own; every pairwise distance is 0, 6, 8 or 10
SamplePositions ==
    {Vector3d(0, 0, 0), Vector3d(6, 0, 0), Vector3d(0, 0, 8), Vector3d(6, 0, 8)}

\* the sample sequences handed to drawMavTrajectory (the points of a trajectory)
SampleSequences == SeqsUpTo(SamplePositions, MaxSamples)

Spacings == {0, 8, 16}

FrameIds == {"world", "map"}

(***************************************************************************)
(* State.                                                                  *)
(***************************************************************************)
VARIABLES
    way_,                 \* the global geometry_msgs::PoseArray way_ (its poses)
    queue,                \* the subscriber's queue: arrived, not yet delivered
    pc,                   \* where main (or the caller of a drawing function) is
    vertices,             \* main: Vertex::Vector vertices
    middle,               \* main: Vertex middle
    ii,                   \* main: the loop index ii
    trajectory,           \* main: Trajectory trajectory (the points it runs through)
    errors,               \* failures the library steps of this cycle surfaced
    published,            \* whether this cycle called vis_pub.publish
    distance,             \* drawMavTrajectory: parameter distance
    frame_id,             \* drawMavTrajectory: parameter frame_id
    markers,              \* marker_array->markers
    draw_ret,             \* where the drawing function returns to
    flat_states,          \* drawMavTrajectoryWithMavMarker: the samples
    line_strip,           \* drawMavTrajectoryWithMavMarker: Marker line_strip
    accumulated_distance, \* drawMavTrajectoryWithMavMarker: accumulated_distance
    last_position,        \* drawMavTrajectoryWithMavMarker: last_position
    i,                    \* drawMavTrajectoryWithMavMarker: the loop index i
    emitted,              \* observation: the samples (1-based) that emitted markers
    previous              \* observation: the list the previous loop iteration ran on

vars == <<way_, queue, pc, vertices, middle, ii, trajectory, errors, published,
          distance, frame_id, markers, draw_ret, flat_states, line_strip,
          accumulated_distance, last_position, i, emitted, previous>>

mainVars == <<vertices, middle, ii, trajectory, errors, published>>

drawVars == <<distance, frame_id, markers, draw_ret, flat_states, line_strip,
              accumulated_distance, last_position, i, emitted>>

(***************************************************************************)
(* Markers (visualization_msgs::Marker): the namespace, the header's frame *)
(* and the points (a line strip's points, or the anchor of an arrow).      *)
(***************************************************************************)
Marker == [ns |-> "", frame_id |-> "", points |-> <<>>]

MarkerAt(ns, p) == [ns |-> ns, frame_id |-> "", points |-> <<p>>]


(***************************************************************************)
(* The library steps main calls.  Their code is not part of the sources    *)
(* modelled here; they are modelled from the design's description.         *)
(***************************************************************************)
\* the polynomial trajectory runs through the position constraint of every
\* vertex, in order; the model keeps these points of it
TrajectoryThrough(vs) == [k \in 1..Len(vs) |-> vs[k].constraints[POSITION]]

\* two consecutive vertices at the same position make a segment of no length,
\* hence of no duration (duplicate vertex times): the linear system is singular
SolverDegenerate(vs) ==
    \E k \in 1..(Len(vs) - 1) :
        vs[k].constraints[POSITION] = vs[k + 1].constraints[POSITION]

\* "Sample the trajectory": one trajectory point (flat state) per point kept
sampleWholeTrajectory(t) == [k \in 1..Len(t) |-> [position_W |-> t[k]]]

\* mav_viz::drawAxesArrows: the pose marker at a position
drawAxesArrows(p) == <<MarkerAt("", p)>>

\* positionDerivativeToString
positionDerivativeToString(d) ==
    CASE d = POSITION -> "position"
      [] d = VELOCITY -> "velocity"
      [] d = ACCELERATION -> "acceleration"

\* setMarkerProperties(header, ...): every marker of the array gets the header
setMarkerProperties(header_frame_id, ms) ==
    [k \in 1..Len(ms) |-> [ms[k] EXCEPT !.frame_id = header_frame_id]]

(***************************************************************************)
(* waypoint_node.cpp: the subscriber.                                      *)
(***************************************************************************)
\* waycb: way_ = *msg;
waycb(old, msg) == msg

\* ros::spinOnce(): the callback runs once for every queued message, oldest first
RECURSIVE DeliverAll(_, _)
DeliverAll(w, q) ==
    IF q = <<>> THEN w ELSE DeliverAll(waycb(w, Head(q)), Tail(q))

\* a subscriber whose callback runs as soon as a message arrives
ArriveAsync(msg) ==
    /\ Len(queue) < MaxPending
    /\ way_' = waycb(way_, msg)
    /\ UNCHANGED <<queue, pc, previous, mainVars, drawVars>>

\* A message arrives on /waypoints.  The subscriber only queues it (a full
\* queue drops its oldest message); way_ is written by waycb, which runs
\* inside ros::spinOnce().
Arrive(msg) ==
    /\ Len(queue) < MaxPending
    /\ queue' = IF Len(queue) = queue_size
                THEN Append(Tail(queue), msg)
                ELSE Append(queue, msg)
    /\ UNCHANGED <<way_, pc, previous, mainVars, drawVars>>

(***************************************************************************)
(* waypoint_node.cpp: one iteration of main's while (ros::ok()) loop.      *)
(***************************************************************************)
\* the position main builds a vertex from: Eigen::Vector3d(p.x, p.y, 0)
VertexPosition(pose) == Vector3d(pose.x, pose.y, 0)

\* lines 23-35: the locals are constructed, the waypoint count is tested
LoopTop ==
    /\ pc = "top"
    /\ vertices' = <<>>
    /\ middle' = Vertex(dimension)
    /\ errors' = {}
    /\ published' = FALSE
    /\ pc' = IF Len(way_) > 0 THEN "start" ELSE "spin"
    /\ UNCHANGED <<way_, queue, previous, ii, trajectory, drawVars>>

\* lines 37-40: the first waypoint becomes the start vertex
BuildStart ==
    /\ pc = "start"
    /\ vertices' = Append(vertices,
                          makeStartOrEnd(Vertex(dimension),
                                         VertexPosition(way_[1]),
                                         derivative_to_optimize))
    /\ ii' = 1
    /\ pc' = "middle"
    /\ UNCHANGED <<way_, queue, previous, middle, trajectory, errors, published, drawVars>>

\* line 41 with the bound way_.poses.size()
MiddleLoopOffByOne(index, size) == index < size

\* line 41: ii < way_.poses.size() - 1; the list is not empty here (line 35),
\* so the unsigned size() - 1 does not wrap
MiddleLoop(index, size) == index < size - 1

\* lines 41-45: every waypoint between the first and the last becomes a vertex
\* with a position constraint; way_.poses[ii] is way_[ii + 1] here
BuildMiddle ==
    /\ pc = "middle"
    /\ IF MiddleLoop(ii, Len(way_))
       THEN /\ middle' = addConstraint(middle, POSITION,
                                       VertexPosition(way_[ii + 1]))
            /\ vertices' = Append(vertices, middle')
            /\ ii' = ii + 1
            /\ pc' = "middle"
       ELSE /\ pc' = "end"
            /\ UNCHANGED <<middle, vertices, ii>>
    /\ UNCHANGED <<way_, queue, previous, trajectory, errors, published, drawVars>>

\* lines 47-48: the last waypoint becomes the end vertex
BuildEnd ==
    /\ pc = "end"
    /\ vertices' = Append(vertices,
                          makeStartOrEnd(Vertex(dimension),
                                         VertexPosition(way_[Len(way_)]),
                                         derivative_to_optimize))
    /\ pc' = "estimate"
    /\ UNCHANGED <<way_, queue, previous, middle, ii, trajectory, errors, published,
                   drawVars>>

\* lines 51-76: estimateSegmentTimes, setupFromVertices, solveLinear,
\* getSegments, getTrajectory.  main tests no result of any of them.
SolveTrajectory ==
    /\ pc = "estimate"
    /\ errors' = IF SolverDegenerate(vertices)
                 THEN errors \cup {"SolverDegenerate"}
                 ELSE errors
    /\ trajectory' = TrajectoryThrough(vertices)
    /\ pc' = "evaluate"
    /\ UNCHANGED <<way_, queue, previous, vertices, middle, ii, published, drawVars>>

\* lines 80-90: evaluate(2.0, POSITION) and evaluateRange(2.0, 10.0, 0.01).
\* Whether 2.0 lies before the trajectory's end depends on the segment times
\* the library estimated: both outcomes are possible.  The results (sample,
\* result, sampling_times) are never read.
EvaluateInRange ==
    /\ pc = "evaluate"
    /\ pc' = "visualize"
    /\ UNCHANGED <<way_, queue, previous, mainVars, drawVars>>

EvaluateOutOfRange ==
    /\ pc = "evaluate"
    /\ errors' = errors \cup {"TimeOutOfRange"}
    /\ pc' = "visualize"
    /\ UNCHANGED <<way_, queue, previous, vertices, middle, ii, trajectory, published,
                   drawVars>>

\* lines 95-99: markers is constructed, drawMavTrajectory is called
Visualize ==
    /\ pc = "visualize"
    /\ markers' = <<>>
    /\ distance' = main_distance
    /\ frame_id' = main_frame_id
    /\ draw_ret' = "publish"
    /\ pc' = "draw"
    /\ UNCHANGED <<way_, queue, previous, mainVars, flat_states, line_strip,
                   accumulated_distance, last_position, i, emitted>>

\* line 109: vis_pub.publish(markers)
Publish ==
    /\ pc = "publish"
    /\ published' = TRUE
    /\ pc' = "spin"
    /\ UNCHANGED <<way_, queue, previous, vertices, middle, ii, trajectory, errors,
                   drawVars>>

\* line 111: ros::spinOnce()
SpinOnce ==
    /\ pc = "spin"
    /\ way_' = DeliverAll(way_, queue)
    /\ queue' = <<>>
    /\ previous' = [ran |-> TRUE, way |-> way_]
    /\ pc' = "sleep"
    /\ UNCHANGED <<mainVars, drawVars>>

\* lines 112-113: vertices.clear(); sleep_rate.sleep();
ClearAndSleep ==
    /\ pc = "sleep"
    /\ vertices' = <<>>
    /\ pc' = "top"
    /\ UNCHANGED <<way_, queue, previous, middle, ii, trajectory, errors, published,
                   drawVars>>


(***************************************************************************)
(* ros_visualization.cpp: drawMavTrajectory, which passes an empty extra   *)
(* marker group on to drawMavTrajectoryWithMavMarker.                      *)
(***************************************************************************)
\* internal::appendMarkers: every marker is pushed; a non-empty namespace
\* replaces the marker's own
RECURSIVE appendMarkers(_, _, _)
appendMarkers(markers_to_insert, marker_namespace, marker_array) ==
    IF markers_to_insert = <<>> THEN marker_array
    ELSE appendMarkers(
             Tail(markers_to_insert), marker_namespace,
             Append(marker_array,
                    IF marker_namespace # ""
                    THEN [Head(markers_to_insert) EXCEPT !.ns = marker_namespace]
                    ELSE Head(markers_to_insert)))

\* lines 59-71 without the initialisation of accumulated_distance
DrawBeginStatic ==
    /\ pc = "draw"
    /\ markers' = <<>>
    /\ flat_states' = sampleWholeTrajectory(trajectory)
    /\ line_strip' = [Marker EXCEPT !.ns = "path"]
    /\ last_position' = Zero
    /\ i' = 0
    /\ emitted' = <<>>
    /\ pc' = "draw_loop"
    /\ UNCHANGED <<way_, queue, previous, mainVars, distance, frame_id, draw_ret,
                   accumulated_distance>>

\* lines 59-71: the array is cleared, the trajectory sampled, the line strip
\* and the two running values are initialised
DrawBegin ==
    /\ pc = "draw"
    /\ markers' = <<>>
    /\ flat_states' = sampleWholeTrajectory(trajectory)
    /\ line_strip' = [Marker EXCEPT !.ns = "path"]
    /\ accumulated_distance' = 0
    /\ last_position' = Zero
    /\ i' = 0
    /\ emitted' = <<>>
    /\ pc' = "draw_loop"
    /\ UNCHANGED <<way_, queue, previous, mainVars, distance, frame_id, draw_ret>>

\* line 75: accumulated_distance += (last_position - position_W).norm()
Accumulate(acc, last, position_W) == acc + Norm(Minus(last, position_W))

\* line 76: accumulated_distance > distance
Exceeds(acc, d) == acc > d

\* line 77 without the reset
AfterTestNoReset(acc, emit) == acc

\* line 77: the accumulated distance starts again at 0.0 when markers are emitted
AfterTest(acc, emit) == IF emit THEN 0 ELSE acc

\* lines 78-107: the pose marker, the acceleration arrow, the velocity arrow;
\* the extra marker group is empty and adds nothing
EmitMarkers(marker_array, position_W) ==
    appendMarkers(drawAxesArrows(position_W), "pose", marker_array)
        \o <<MarkerAt(positionDerivativeToString(ACCELERATION), position_W),
             MarkerAt(positionDerivativeToString(VELOCITY), position_W)>>

\* line 110 moved inside the if of line 76
PushPointIfEmitted(points, position_W, emit) ==
    IF emit THEN Append(points, position_W) ELSE points

\* line 110: line_strip.points.push_back(eigenToPoint(last_position))
PushPoint(points, position_W, emit) == Append(points, position_W)

\* lines 72-111: one iteration of the loop over the samples;
\* flat_states[i] is flat_states[i + 1] here
DrawSample ==
    /\ pc = "draw_loop"
    /\ i < Len(flat_states)
    /\ LET flat_state == flat_states[i + 1]
           acc == Accumulate(accumulated_distance, last_position,
                             flat_state.position_W)
           emit == Exceeds(acc, distance)
       IN  /\ accumulated_distance' = AfterTest(acc, emit)
           /\ markers' = IF emit THEN EmitMarkers(markers, flat_state.position_W)
                         ELSE markers
           /\ emitted' = IF emit THEN Append(emitted, i + 1) ELSE emitted
           /\ last_position' = flat_state.position_W
           /\ line_strip' =
                  [line_strip EXCEPT
                      !.points = PushPoint(@, flat_state.position_W, emit)]
    /\ i' = i + 1
    /\ UNCHANGED <<way_, queue, previous, pc, mainVars, distance, frame_id, draw_ret,
                   flat_states>>

\* line 115: header.frame_id = "world";
HeaderFrameId(frame) == "world"

\* lines 112-118: the line strip is pushed, every marker gets the header
DrawFinish ==
    /\ pc = "draw_loop"
    /\ ~(i < Len(flat_states))
    /\ markers' = setMarkerProperties(HeaderFrameId(frame_id),
                                      Append(markers, line_strip))
    /\ pc' = draw_ret
    /\ UNCHANGED <<way_, queue, previous, mainVars, distance, frame_id, draw_ret,
                   flat_states, line_strip, accumulated_distance,
                   last_position, i, emitted>>

(***************************************************************************)
(* ros_visualization.cpp: drawVertices.                                    *)
(***************************************************************************)
\* lines 131-144: the loop over the vertices, pushing each position constraint
\* onto the marker's points; it stops, not ok, at a vertex that is not of
\* dimension 3
RECURSIVE VertexPoints(_, _)
VertexPoints(vs, points) ==
    IF vs = <<>> THEN [ok |-> TRUE, points |-> points]
    ELSE IF Head(vs).D # 3 THEN [ok |-> FALSE, points |-> points]
    ELSE VertexPoints(Tail(vs),
                      IF hasConstraint(Head(vs), POSITION)
                      THEN Append(points, Head(vs).constraints[POSITION])
                      ELSE points)

\* lines 120-151, for a caller's vertices, frame_id and marker array.
\* markers.resize(1) keeps the first marker the array holds, if any.
DrawVertices(vs, frame, stale) ==
    /\ pc = "idle"
    /\ LET front == IF stale = <<>> THEN Marker ELSE stale[1]
           drawn == VertexPoints(vs, front.points)
           marker == [front EXCEPT !.ns = "straight_path",
                                   !.points = drawn.points]
       IN  IF drawn.ok
           THEN /\ markers' = setMarkerProperties(frame, <<marker>>)
                /\ draw_ret' = "true"
           ELSE /\ markers' = <<marker>>
                /\ draw_ret' = "false"
    /\ frame_id' = frame
    /\ pc' = "vertices_drawn"
    /\ UNCHANGED <<way_, queue, previous, mainVars, distance, flat_states,
                   line_strip, accumulated_distance, last_position, i, emitted>>

(***************************************************************************)
(* The drawing functions called on their own: a caller hands over any      *)
(* trajectory, spacing, frame and marker array.                            *)
(***************************************************************************)
\* vertex lists handed to drawVertices
VertexInputs ==
    {<<>>,
     <<makeStartOrEnd(Vertex(3), Vector3d(6, 0, 8), ACCELERATION),
       addConstraint(Vertex(3), VELOCITY, Zero),
       addConstraint(Vertex(3), POSITION, Vector3d(0, 0, 8))>>,
     <<addConstraint(Vertex(3), POSITION, Zero),
       addConstraint(Vertex(2), POSITION, Zero)>>}

\* what a marker array may hold when it is passed in
StaleMarkers == {<<>>, <<[ns |-> "path", frame_id |-> "odom", points |-> <<Zero>>]>>}

\* what the cells of the function's locals hold before they are initialised
StaleLocals ==
    {[acc |-> 0, last |-> Zero, points |-> <<>>],
     [acc |-> 7, last |-> Vector3d(6, 0, 0), points |-> <<Zero>>]}

CallDrawMavTrajectory(t, d, frame, stale) ==
    /\ pc = "idle"
    /\ trajectory' = t
    /\ distance' = d
    /\ frame_id' = frame
    /\ markers' = stale
    /\ draw_ret' = "returned"
    /\ pc' = "draw"
    /\ UNCHANGED <<way_, queue, previous, vertices, middle, ii, errors, published,
                   flat_states, line_strip, accumulated_distance,
                   last_position, i, emitted>>

\* a caller calls drawMavTrajectory with some trajectory, spacing, frame and array
CallDraw ==
    /\ pc = "idle"
    /\ \E t \in SampleSequences, d \in Spacings, frame \in FrameIds,
          stale \in StaleMarkers :
           CallDrawMavTrajectory(t, d, frame, stale)

(***************************************************************************)
(* Specifications.                                                         *)
(***************************************************************************)
\* the node after ros::init, subscribe and advertise: way_ is empty
Init ==
    /\ way_ = <<>>
    /\ queue = <<>>
    /\ pc = "top"
    /\ vertices = <<>>
    /\ middle = Vertex(dimension)
    /\ ii = 0
    /\ trajectory = <<>>
    /\ errors = {}
    /\ published = FALSE
    /\ distance = 0
    /\ frame_id = ""
    /\ markers = <<>>
    /\ draw_ret = ""
    /\ flat_states = <<>>
    /\ line_strip = Marker
    /\ accumulated_distance = 0
    /\ last_position = Zero
    /\ i = 0
    /\ emitted = <<>>
    /\ previous = [ran |-> FALSE, way |-> <<>>]

Next ==
    \/ \E msg \in PublishedLists : Arrive(msg)
    \/ LoopTop
    \/ BuildStart
    \/ BuildMiddle
    \/ BuildEnd
    \/ SolveTrajectory
    \/ EvaluateInRange
    \/ EvaluateOutOfRange
    \/ Visualize
    \/ DrawBegin
    \/ DrawSample
    \/ DrawFinish
    \/ Publish
    \/ SpinOnce
    \/ ClearAndSleep

Spec == Init /\ [][Next]_vars

\* a caller about to call a drawing function
InitDraw ==
    /\ way_ = <<>>
    /\ queue = <<>>
    /\ pc = "idle"
    /\ vertices = <<>>
    /\ middle = Vertex(dimension)
    /\ ii = 0
    /\ trajectory = <<>>
    /\ errors = {}
    /\ published = FALSE
    /\ distance = 0
    /\ frame_id = ""
    /\ markers = <<>>
    /\ draw_ret = ""
    /\ flat_states = <<>>
    /\ \E stale \in StaleLocals :
           /\ line_strip = [Marker EXCEPT !.points = stale.points]
           /\ accumulated_distance = stale.acc
           /\ last_position = stale.last
    /\ i = 0
    /\ emitted = <<>>
    /\ previous = [ran |-> FALSE, way |-> <<>>]

NextDraw ==
    \/ CallDraw
    \/ DrawBegin
    \/ DrawSample
    \/ DrawFinish
    \/ \E vs \in VertexInputs, frame \in FrameIds, stale \in StaleMarkers :
           DrawVertices(vs, frame, stale)

SpecDraw == InitDraw /\ [][NextDraw]_vars

\* the node at the top of its loop, after any one waypoint list was delivered
\* and with no further message arriving
InitCycle ==
    /\ way_ \in WaypointLists
    /\ queue = <<>>
    /\ pc = "top"
    /\ vertices = <<>>
    /\ middle = Vertex(dimension)
    /\ ii = 0
    /\ trajectory = <<>>
    /\ errors = {}
    /\ published = FALSE
    /\ distance = 0
    /\ frame_id = ""
    /\ markers = <<>>
    /\ draw_ret = ""
    /\ flat_states = <<>>
    /\ line_strip = Marker
    /\ accumulated_distance = 0
    /\ last_position = Zero
    /\ i = 0
    /\ emitted = <<>>
    /\ previous = [ran |-> FALSE, way |-> <<>>]

NextCycle ==
    \/ LoopTop
    \/ BuildStart
    \/ BuildMiddle
    \/ BuildEnd
    \/ SolveTrajectory
    \/ EvaluateInRange
    \/ EvaluateOutOfRange
    \/ Visualize
    \/ DrawBegin
    \/ DrawSample
    \/ DrawFinish
    \/ Publish
    \/ SpinOnce
    \/ ClearAndSleep

SpecCycle == InitCycle /\ [][NextCycle]_vars

(***************************************************************************)
(* Properties.                                                             *)
(***************************************************************************)
\* main is past the vertex building of this iteration and has not yet
\* delivered new messages: way_ is the list the iteration ran on
AfterBuild ==
    pc \in {"estimate", "evaluate", "visualize", "draw", "draw_loop",
            "publish", "spin"}

\* C1: a waypoint list with fewer than 2 entries makes the iteration skip
\* trajectory generation: no vertices reach the time estimator or the
\* optimizer, no trajectory is produced, nothing is published.
C1_ShortListSkipped ==
    Len(way_) < 2 =>
        /\ pc \notin {"estimate", "evaluate", "visualize", "draw", "draw_loop",
                      "publish"}
        /\ (pc = "spin" => ~published)

\* C2: for a list of n >= 2 waypoints the builder outputs n vertices, vertex k
\* built from waypoint k (its x and y); the first and the last constrain every
\* derivative from position up to the optimized one (the higher ones to
\* zero), every other vertex constrains its position and nothing else.
C2_OneVertexPerWaypoint ==
    (AfterBuild /\ Len(way_) >= 2) =>
        /\ Len(vertices) = Len(way_)
        /\ \A k \in 1..Len(vertices) :
              LET c == vertices[k].constraints
              IN  /\ POSITION \in DOMAIN c
                  /\ c[POSITION].x = way_[k].x
                  /\ c[POSITION].y = way_[k].y
                  /\ IF k = 1 \/ k = Len(vertices)
                     THEN /\ DOMAIN c = 0..derivative_to_optimize
                          /\ \A d \in 1..derivative_to_optimize : c[d] = Zero
                     ELSE DOMAIN c = {POSITION}

\* a list of three waypoints, no two at the same x and y, has been built
C2_Witness ==
    /\ pc = "estimate"
    /\ Len(way_) = 3
    /\ \A j, k \in 1..3 :
          j # k => VertexPosition(way_[j]) # VertexPosition(way_[k])
    /\ Len(vertices) = 3

\* C3: the position constraint of the vertex built from a waypoint is the
\* full waypoint (x, y, z), also when z is not 0.
C3_PositionIsWaypoint ==
    (AfterBuild /\ Len(way_) >= 2 /\ Len(vertices) = Len(way_)) =>
        \A k \in 1..Len(vertices) : vertices[k].constraints[POSITION] = way_[k]

\* the length of the path along the samples from sample a to sample b
RECURSIVE PathLength(_, _)
PathLength(a, b) ==
    IF b <= a THEN 0
    ELSE PathLength(a, b - 1)
         + Norm(Minus(flat_states[b].position_W, flat_states[b - 1].position_W))

\* C4: with a spacing D > 0, the path between the samples of two markers
\* emitted one after the other is at least D long.
C4_MarkersSpaced ==
    (pc \in {"draw_loop", "returned"} /\ distance > 0) =>
        \A k \in 1..(Len(emitted) - 1) :
            PathLength(emitted[k], emitted[k + 1]) >= distance

\* two samples emitted markers and a sample between them did not
C4_Witness ==
    /\ pc = "returned"
    /\ distance > 0
    /\ Len(emitted) >= 2
    /\ emitted[2] > emitted[1] + 1

\* C5: with spacing 0 every sample emits markers.
C5_EverySampleEmits ==
    (pc = "returned" /\ distance = 0) => Len(emitted) = Len(flat_states)

\* the positions of the first n samples
Positions(n) == [k \in 1..n |-> flat_states[k].position_W]

\* C6: the line strip gets the position of every sample, in order, whether or
\* not the sample emitted markers, and the returned array holds exactly one
\* marker of namespace "path", the line strip.
C6_PolylineOfAllSamples ==
    /\ pc = "draw_loop" => line_strip.points = Positions(i)
    /\ pc = "returned" =>
          /\ line_strip.points = Positions(Len(flat_states))
          /\ Cardinality({k \in 1..Len(markers) : markers[k].ns = "path"}) = 1
          /\ \A k \in 1..Len(markers) :
                markers[k].ns = "path" =>
                    markers[k].points = Positions(Len(flat_states))

\* a call returned in which some samples emitted and some did not, on an
\* array that held a "path" marker when it was passed in
C6_Witness ==
    /\ pc = "returned"
    /\ Len(flat_states) >= 3
    /\ Len(emitted) >= 1
    /\ Len(emitted) < Len(flat_states)
    /\ Len(line_strip.points) = Len(flat_states)

\* C7: way_ changes only in the step that is ros::spinOnce(), so never while
\* an iteration is between vertex build and publish, whatever arrives; and
\* spinOnce leaves in it the last message delivered.
C7_LatestValueWins ==
    [][/\ ~(pc = "spin" /\ pc' = "sleep") => way_' = way_
       /\ (pc = "spin" /\ pc' = "sleep") =>
              way_' = IF queue = <<>> THEN way_ ELSE queue[Len(queue)]]_vars

\* two different lists arrived while the iteration was past its vertex build
C7_Witness ==
    /\ pc = "publish"
    /\ Len(way_) = 3
    /\ Len(queue) = 2
    /\ queue[1] # queue[2]
    /\ queue[2] # way_
    /\ queue[1] # way_

\* C8: an iteration in which a step failed publishes nothing.
C8_FailureAborts ==
    (pc = "spin" /\ published) => errors = {}

\* the vertices main builds from a waypoint list, starting from nothing
VerticesOf(w) ==
    IF Len(w) = 0 THEN <<>>
    ELSE [k \in 1..(IF Len(w) = 1 THEN 2 ELSE Len(w)) |->
             IF k = 1
             THEN makeStartOrEnd(Vertex(dimension), VertexPosition(w[1]),
                                 derivative_to_optimize)
             ELSE IF k >= Len(w)
             THEN makeStartOrEnd(Vertex(dimension), VertexPosition(w[Len(w)]),
                                 derivative_to_optimize)
             ELSE addConstraint(Vertex(dimension), POSITION,
                                VertexPosition(w[k]))]

\* the loop of drawMavTrajectoryWithMavMarker over samples k .. Len(samples),
\* from given running values
RECURSIVE Decimated(_, _, _)
Decimated(samples, k, st) ==
    IF k > Len(samples) THEN st
    ELSE LET p == samples[k].position_W
             acc == Accumulate(st.acc, st.last, p)
             emit == Exceeds(acc, main_distance)
         IN  Decimated(samples, k + 1,
                       [acc |-> AfterTest(acc, emit),
                        last |-> p,
                        markers |-> IF emit THEN EmitMarkers(st.markers, p)
                                    ELSE st.markers,
                        points |-> PushPoint(st.points, p, emit)])

\* the array main publishes for a waypoint list, starting from nothing
MarkersOf(w) ==
    LET samples == sampleWholeTrajectory(TrajectoryThrough(VerticesOf(w)))
        st == Decimated(samples, 1,
                        [acc |-> 0, last |-> Zero, markers |-> <<>>,
                         points |-> <<>>])
    IN  setMarkerProperties(
            HeaderFrameId(main_frame_id),
            Append(st.markers, [Marker EXCEPT !.ns = "path", !.points = st.points]))

\* C9: nothing is carried from one iteration to the next: the vertex sequence
\* starts empty, the accumulated distance, the cursor, the line strip and the
\* marker list start at zero/empty, and the vertices and the published array
\* are those computed from the current waypoint list alone.
C9_NoStateAcrossInvocations ==
    /\ pc = "start" => vertices = <<>>
    /\ (pc = "draw_loop" /\ i = 0) =>
          /\ accumulated_distance = 0
          /\ last_position = Zero
          /\ markers = <<>>
          /\ line_strip.points = <<>>
    /\ AfterBuild => vertices = VerticesOf(way_)
    /\ pc = "publish" => markers = MarkersOf(way_)

\* an iteration is about to publish markers for a list of three waypoints
\* after the previous iteration ran on another list of three
C9_Witness ==
    /\ pc = "publish"
    /\ previous.ran
    /\ Len(previous.way) = 3
    /\ Len(way_) = 3
    /\ previous.way # way_
    /\ Len(markers) > 1

\* C10: every marker of the returned array carries the frame the caller
\* passed in.
C10_CallerFrame ==
    pc = "returned" => \A k \in 1..Len(markers) : markers[k].frame_id = frame_id

\* drawVertices, when it returns true, tags its marker with the caller's frame
DrawVerticesCallerFrame ==
    (pc = "vertices_drawn" /\ draw_ret = "true") =>
        \A k \in 1..Len(markers) : markers[k].frame_id = frame_id

=============================================================================
